---- MODULE Spec2Model ----
(***************************************************************************)
(* Model of genevo's src/types.rs: the Fitness implementations that the    *)
(* macros implement_fitness_for_signed_integer and                         *)
(* implement_fitness_for_unsigned_integer generate for the primitive       *)
(* integer types.                                                          *)
(*                                                                         *)
(* The arithmetic is the arithmetic of the profile the module's tests run  *)
(* under (overflow checks on): `-` and `abs()` panic with "attempt to      *)
(* subtract with overflow" / "attempt to negate with overflow" when the    *)
(* result is not representable, as the #[should_panic] tests expect.       *)
(*                                                                         *)
(* The macro bodies are the same for every width.  The widths modelled are *)
(* 8 bits (every value of i8 and u8) and 16 bits (the values next to MIN,  *)
(* 0 and MAX and the values the tests use); the 32-bit, 64-bit and         *)
(* pointer-width instances are the same text over a range that the model   *)
(* checker's integers cannot hold.                                         *)
(***************************************************************************)
EXTENDS Integers, Sequences, FiniteSets

(* ------------------------------ bounds --------------------------------- *)

\* Number of threads that call into the module concurrently (SpecConc).
NumThreads == 2

\* How far from MIN, 0 and MAX the sampled 16-bit inputs reach.
Near == 2

(* ------------------------------ types ---------------------------------- *)

SignedTypes == {"i8", "i16"}

UnsignedTypes == {"u8", "u16"}

Types == SignedTypes \cup UnsignedTypes

Bits(t) == IF t \in {"i8", "u8"} THEN 8 ELSE 16

MIN(t) == IF t \in SignedTypes THEN 0 - 2^(Bits(t) - 1) ELSE 0

MAX(t) == IF t \in SignedTypes THEN 2^(Bits(t) - 1) - 1 ELSE 2^Bits(t) - 1

InRange(t, v) == MIN(t) <= v /\ v <= MAX(t)

(* ----------------------------- outcomes -------------------------------- *)

SubOverflow == "attempt to subtract with overflow"

NegOverflow == "attempt to negate with overflow"

None == [kind |-> "none", val |-> 0, msg |-> ""]

Value(v) == [kind |-> "value", val |-> v, msg |-> ""]

Panic(m) == [kind |-> "panic", val |-> 0, msg |-> m]

(* ------------------------ primitive operations ------------------------- *)

\* a - b wraps around the type's range instead of panicking.
sub_wrapping(t, a, b) ==
    LET m == 2^Bits(t)
        r == a - b
    IN  Value(((r - MIN(t)) % m) + MIN(t))

\* `a - b` on type t with overflow checks.
sub(t, a, b) ==
    LET r == a - b
    IN  IF InRange(t, r) THEN Value(r) ELSE Panic(SubOverflow)

\* `-x` on type t with overflow checks.
neg(t, x) ==
    LET r == 0 - x
    IN  IF InRange(t, r) THEN Value(r) ELSE Panic(NegOverflow)

\* abs() that leaves MIN as it is instead of panicking.
abs_wrapping(t, x) ==
    IF x < 0 /\ x # MIN(t) THEN Value(0 - x) ELSE Value(x)

\* abs() that returns its argument.
abs_identity(t, x) == Value(x)

\* `x.abs()` on signed type t: negates a negative value.
abs(t, x) == IF x < 0 THEN neg(t, x) ELSE Value(x)

\* The comparison the wrong way round.
gt_reversed(a, b) == a < b

\* `self > other` of the unsigned abs_diff.
gt(a, b) == a > b

\* A zero() that returns one.
zero_one(t) == 1

\* `zero()`.
zero(t) == 0

(* --------------- the functions, as one call run on its own ------------- *)

abs_diff_signed(t, a, b) ==
    LET d == sub(t, a, b)
    IN  IF d.kind = "panic" THEN d ELSE abs(t, d.val)

abs_diff_unsigned(t, a, b) ==
    IF gt(a, b) THEN sub(t, a, b) ELSE sub(t, b, a)

abs_diff(t, a, b) ==
    IF t \in SignedTypes THEN abs_diff_signed(t, a, b)
                         ELSE abs_diff_unsigned(t, a, b)

(* ------------------------------ inputs --------------------------------- *)

\* The literals of the tests.
TestValues == {0, 1, 19, 23, 42, 61, 0 - 1, 0 - 19, 0 - 23}

\* Values next to MIN, 0 and MAX, and the tests' literals.
Sample(t) ==
    {v \in (MIN(t) .. MIN(t) + Near) \cup ((0 - Near) .. Near)
             \cup (MAX(t) - Near .. MAX(t)) \cup TestValues : InRange(t, v)}

\* Inputs of the sequential callers: all of an 8-bit type, a sample of a
\* 16-bit type.
SeqDom == [t \in Types |-> IF Bits(t) = 8 THEN MIN(t) .. MAX(t) ELSE Sample(t)]

\* Inputs of the concurrent callers.
ConcDom == [t \in Types |-> {v \in {0 - 1, 0, MAX(t)} : InRange(t, v)}]

SeqCallers == {1}

ConcCallers == 1 .. NumThreads

(* ------------------------------- state --------------------------------- *)

VARIABLES
    pc,        \* per caller: where it is in the function it called
    fn,        \* per caller: "zero" or "abs_diff" ("" when idle)
    ty,        \* per caller: the type the call is made on
    self,      \* per caller: *self of abs_diff
    other,     \* per caller: *other of abs_diff
    diff,      \* per frame: the local `diff` of the signed abs_diff
    outcome,   \* per caller: what the call returned or panicked with
    trace      \* per caller: the source lines the call has executed

vars == <<pc, fn, ty, self, other, diff, outcome, trace>>

\* The frame holding a call's local `diff`: the call's own.
DiffSlotShared(c) == 0

DiffSlot(c) == c

InitFor(C) ==
    /\ pc = [c \in C |-> "idle"]
    /\ fn = [c \in C |-> ""]
    /\ ty = [c \in C |-> "i8"]
    /\ self = [c \in C |-> 0]
    /\ other = [c \in C |-> 0]
    /\ diff = [s \in C \cup {0} |-> 0]
    /\ outcome = [c \in C |-> None]
    /\ trace = [c \in C |-> << >>]

Callers == DOMAIN pc

\* The values the state takes.
TypeOK ==
    /\ pc \in [Callers -> {"idle", "zero", "sub", "abs", "cmp",
                           "sub_self_other", "sub_other_self", "done"}]
    /\ fn \in [Callers -> {"", "zero", "abs_diff"}]
    /\ ty \in [Callers -> Types]
    /\ \A c \in Callers :
          /\ InRange(ty[c], self[c]) /\ InRange(ty[c], other[c])
          /\ outcome[c].kind \in {"none", "value", "panic"}
          /\ outcome[c].kind = "value" => InRange(ty[c], outcome[c].val)
          /\ Len(trace[c]) <= 2
    /\ DOMAIN diff = Callers \cup {0}

(* ------------------------------ actions -------------------------------- *)

\* A caller invokes <t as Fitness>::zero().
CallZero(c) ==
    /\ pc[c] = "idle"
    /\ \E t \in Types : ty' = [ty EXCEPT ![c] = t]
    /\ pc' = [pc EXCEPT ![c] = "zero"]
    /\ fn' = [fn EXCEPT ![c] = "zero"]
    /\ UNCHANGED <<self, other, diff, outcome, trace>>

\* The body of zero(): the literal 0.
ZeroBody(c) ==
    /\ pc[c] = "zero"
    /\ outcome' = [outcome EXCEPT ![c] = Value(zero(ty[c]))]
    /\ trace' = [trace EXCEPT ![c] =
                    Append(@, IF ty[c] \in SignedTypes THEN 28 ELSE 48)]
    /\ pc' = [pc EXCEPT ![c] = "done"]
    /\ UNCHANGED <<fn, ty, self, other, diff>>

\* A caller invokes a.abs_diff(&b) on a type t, a and b drawn from Dom[t].
CallAbsDiff(c, Dom) ==
    /\ pc[c] = "idle"
    /\ \E t \in Types : \E a, b \in Dom[t] :
          /\ pc' = [pc EXCEPT ![c] =
                       IF t \in SignedTypes THEN "sub" ELSE "cmp"]
          /\ ty' = [ty EXCEPT ![c] = t]
          /\ self' = [self EXCEPT ![c] = a]
          /\ other' = [other EXCEPT ![c] = b]
    /\ fn' = [fn EXCEPT ![c] = "abs_diff"]
    /\ UNCHANGED <<diff, outcome, trace>>

\* Signed, `let diff = self - other;`
SignedSub(c) ==
    /\ pc[c] = "sub"
    /\ LET d == sub(ty[c], self[c], other[c])
       IN  /\ trace' = [trace EXCEPT ![c] = Append(@, 32)]
           /\ IF d.kind = "panic"
              THEN /\ outcome' = [outcome EXCEPT ![c] = d]
                   /\ pc' = [pc EXCEPT ![c] = "done"]
                   /\ UNCHANGED diff
              ELSE /\ diff' = [diff EXCEPT ![DiffSlot(c)] = d.val]
                   /\ pc' = [pc EXCEPT ![c] = "abs"]
                   /\ UNCHANGED outcome
    /\ UNCHANGED <<fn, ty, self, other>>

\* Signed, `diff.abs()`
SignedAbs(c) ==
    /\ pc[c] = "abs"
    /\ outcome' = [outcome EXCEPT ![c] = abs(ty[c], diff[DiffSlot(c)])]
    /\ trace' = [trace EXCEPT ![c] = Append(@, 33)]
    /\ pc' = [pc EXCEPT ![c] = "done"]
    /\ UNCHANGED <<fn, ty, self, other, diff>>

\* Unsigned, `if self > other`
UnsignedCmp(c) ==
    /\ pc[c] = "cmp"
    /\ pc' = [pc EXCEPT ![c] =
                 IF gt(self[c], other[c]) THEN "sub_self_other"
                                          ELSE "sub_other_self"]
    /\ trace' = [trace EXCEPT ![c] = Append(@, 52)]
    /\ UNCHANGED <<fn, ty, self, other, diff, outcome>>

\* Unsigned, `self - other`
UnsignedSubSelfOther(c) ==
    /\ pc[c] = "sub_self_other"
    /\ outcome' = [outcome EXCEPT ![c] = sub(ty[c], self[c], other[c])]
    /\ trace' = [trace EXCEPT ![c] = Append(@, 53)]
    /\ pc' = [pc EXCEPT ![c] = "done"]
    /\ UNCHANGED <<fn, ty, self, other, diff>>

\* Unsigned, `other - self`
UnsignedSubOtherSelf(c) ==
    /\ pc[c] = "sub_other_self"
    /\ outcome' = [outcome EXCEPT ![c] = sub(ty[c], other[c], self[c])]
    /\ trace' = [trace EXCEPT ![c] = Append(@, 55)]
    /\ pc' = [pc EXCEPT ![c] = "done"]
    /\ UNCHANGED <<fn, ty, self, other, diff>>

\* The caller has taken the outcome; its frame is gone.
Return(c) ==
    /\ pc[c] = "done"
    /\ pc' = [pc EXCEPT ![c] = "idle"]
    /\ fn' = [fn EXCEPT ![c] = ""]
    /\ ty' = [ty EXCEPT ![c] = "i8"]
    /\ self' = [self EXCEPT ![c] = 0]
    /\ other' = [other EXCEPT ![c] = 0]
    /\ outcome' = [outcome EXCEPT ![c] = None]
    /\ trace' = [trace EXCEPT ![c] = << >>]
    /\ diff' = [diff EXCEPT ![DiffSlot(c)] = 0]

Init == InitFor(SeqCallers)

Next ==
    \E c \in SeqCallers :
        \/ CallZero(c)
        \/ ZeroBody(c)
        \/ CallAbsDiff(c, SeqDom)
        \/ SignedSub(c)
        \/ SignedAbs(c)
        \/ UnsignedCmp(c)
        \/ UnsignedSubSelfOther(c)
        \/ UnsignedSubOtherSelf(c)
        \/ Return(c)

\* One caller at a time, over the full input domains.
Spec == Init /\ [][Next]_vars

InitConc == InitFor(ConcCallers)

NextConc ==
    \E c \in ConcCallers :
        \/ CallZero(c)
        \/ ZeroBody(c)
        \/ CallAbsDiff(c, ConcDom)
        \/ SignedSub(c)
        \/ SignedAbs(c)
        \/ UnsignedCmp(c)
        \/ UnsignedSubSelfOther(c)
        \/ UnsignedSubOtherSelf(c)
        \/ Return(c)

\* Several threads calling without coordination.
SpecConc == InitConc /\ [][NextConc]_vars

(* ------------------------- vocabulary of the claims -------------------- *)

\* |x| over the mathematical integers.
AbsVal(x) == IF x < 0 THEN 0 - x ELSE x

\* Caller c's call of abs_diff has ended (returned or panicked).
Ended(c) == pc[c] = "done" /\ fn[c] = "abs_diff"

SignedEnded(c) == Ended(c) /\ ty[c] \in SignedTypes

UnsignedEnded(c) == Ended(c) /\ ty[c] \in UnsignedTypes

\* Caller c's call has executed the given source line.
Executed(c, line) == \E i \in DOMAIN trace[c] : trace[c][i] = line

\* Caller c's call was a.abs_diff(&b) and has ended.
EndedOn(c, a, b) == Ended(c) /\ self[c] = a /\ other[c] = b

(* -------------------------------- C1 ----------------------------------- *)

C2_UnsignedTotal ==
    \A c \in Callers : UnsignedEnded(c) =>
        /\ outcome[c] = Value(AbsVal(self[c] - other[c]))
        /\ InRange(ty[c], outcome[c].val)
        /\ \/ trace[c] = <<52, 53>> /\ self[c] >= other[c]
           \/ trace[c] = <<52, 55>> /\ other[c] >= self[c]
        /\ (EndedOn(c, MAX(ty[c]), 1) \/ EndedOn(c, 1, MAX(ty[c])))
              => outcome[c] = Value(MAX(ty[c]) - 1)
        /\ self[c] = other[c] => outcome[c] = Value(0)

C2_Witness ==
    \E c \in Callers :
        /\ UnsignedEnded(c) /\ ty[c] = "u16"
        /\ EndedOn(c, 1, MAX("u16")) /\ outcome[c] = Value(MAX("u16") - 1)
        /\ trace[c] = <<52, 55>>

(* -------------------------------- C3 ----------------------------------- *)

\* C3: on a signed type abs_diff panics with "attempt to subtract with
\* overflow" exactly when the mathematical a - b lies outside [MIN, MAX], and
\* then the abs() step is never reached; abs_diff(MAX, -1) panics so.
C3_SubOverflowExactly ==
    \A c \in Callers :
        /\ (pc[c] = "abs" \/ (SignedEnded(c) /\ Executed(c, 33)))
              => InRange(ty[c], self[c] - other[c])
        /\ SignedEnded(c) =>
              /\ outcome[c] = Panic(SubOverflow)
                    <=> ~InRange(ty[c], self[c] - other[c])
              /\ outcome[c] = Panic(SubOverflow) => trace[c] = <<32>>
              /\ EndedOn(c, MAX(ty[c]), 0 - 1)
                    => outcome[c] = Panic(SubOverflow)

C3_Witness ==
    \E c \in Callers :
        /\ SignedEnded(c) /\ ty[c] = "i16"
        /\ EndedOn(c, MAX("i16"), 0 - 1)
        /\ outcome[c] = Panic(SubOverflow) /\ trace[c] = <<32>>

(* -------------------------------- C4 ----------------------------------- *)

\* C4: on a signed type abs_diff panics with "attempt to negate with
\* overflow" exactly when a - b succeeds and equals MIN (b - a = MAX + 1);
\* abs_diff(-1, MAX) panics so, while a pair with b - a > MAX + 1, such as
\* abs_diff(-2, MAX), panics with the subtraction overflow instead.
C4_NegOverflowExactly ==
    \A c \in Callers : SignedEnded(c) =>
        /\ outcome[c] = Panic(NegOverflow)
              <=> self[c] - other[c] = MIN(ty[c])
        /\ outcome[c] = Panic(NegOverflow)
              <=> other[c] - self[c] = MAX(ty[c]) + 1
        /\ outcome[c] = Panic(NegOverflow) => trace[c] = <<32, 33>>
        /\ EndedOn(c, 0 - 1, MAX(ty[c])) => outcome[c] = Panic(NegOverflow)
        /\ other[c] - self[c] > MAX(ty[c]) + 1
              => outcome[c] = Panic(SubOverflow)
        /\ EndedOn(c, 0 - 2, MAX(ty[c])) => outcome[c] = Panic(SubOverflow)

C4_Witness ==
    \E c \in Callers :
        /\ SignedEnded(c) /\ ty[c] = "i16"
        /\ EndedOn(c, 0 - 1, MAX("i16"))
        /\ outcome[c] = Panic(NegOverflow) /\ trace[c] = <<32, 33>>

(* -------------------------------- C5 ----------------------------------- *)

\* C5: abs_diff is symmetric in its result: on an unsigned type
\* abs_diff(a, b) = abs_diff(b, a); on a signed type abs_diff(a, b) returns a
\* value iff abs_diff(b, a) does, and then the two values are equal (when
\* both panic the messages may differ).
C5_Symmetric ==
    \A c \in Callers : Ended(c) =>
        LET swapped == abs_diff(ty[c], other[c], self[c])
        IN  /\ ty[c] \in UnsignedTypes => outcome[c] = swapped
            /\ ty[c] \in SignedTypes =>
                  /\ outcome[c].kind = "value" <=> swapped.kind = "value"
                  /\ outcome[c].kind = "value" => outcome[c] = swapped

C5_Witness ==
    \E c \in Callers :
        /\ SignedEnded(c) /\ EndedOn(c, MAX(ty[c]), 0 - 1)
        /\ outcome[c] = Panic(SubOverflow)
        /\ abs_diff(ty[c], other[c], self[c]) = Panic(NegOverflow)

(* -------------------------------- C6 ----------------------------------- *)

C8_ZeroNeutral ==
    \A c \in Callers :
        /\ (pc[c] = "done" /\ fn[c] = "zero") => outcome[c] = Value(0)
        /\ (Ended(c) /\ other[c] = zero(ty[c]) /\ self[c] >= 0)
              => outcome[c] = Value(self[c])
        /\ (Ended(c) /\ self[c] = zero(ty[c]) /\ other[c] >= 0)
              => outcome[c] = Value(other[c])

C8_Witness ==
    \E c \in Callers :
        /\ SignedEnded(c) /\ EndedOn(c, zero(ty[c]), MAX(ty[c]))
        /\ outcome[c] = Value(MAX(ty[c]))

(* -------------------------------- C9 ----------------------------------- *)

\* The outcome of a call run alone.
Alone(f, t, a, b) == IF f = "zero" THEN Value(zero(t)) ELSE abs_diff(t, a, b)

\* C9: under any interleaving of calls made by several threads, a call's
\* outcome is the outcome of the same call run alone, a function of its own
\* arguments; no step changes the arguments of a call in progress, and a step
\* of one thread changes nothing of another thread's call.
C9_NoInterference ==
    [][\A c \in Callers :
          /\ (pc[c] # "idle" /\ pc'[c] # "idle") =>
                /\ fn'[c] = fn[c] /\ ty'[c] = ty[c]
                /\ self'[c] = self[c] /\ other'[c] = other[c]
          /\ pc'[c] = "done" =>
                outcome'[c] = Alone(fn'[c], ty'[c], self'[c], other'[c])
          /\ pc'[c] = pc[c] =>
                /\ outcome'[c] = outcome[c] /\ trace'[c] = trace[c]
                /\ diff'[c] = diff[c]]_vars

C9_Witness ==
    /\ Cardinality(Callers) >= 2
    /\ \E c, d \in Callers :
          /\ c # d
          /\ pc[c] = "abs" /\ ty[c] = "i8" /\ self[c] = 0 - 1 /\ other[c] = 0
          /\ SignedEnded(d) /\ ty[d] = "i16" /\ outcome[d] = Panic(NegOverflow)

(* -------------------------------- C10 ---------------------------------- *)

====
